---- MODULE Spec2Model ----
(***************************************************************************)
(* Model of src-tauri/src/keychain.rs: the three Tauri commands            *)
(* store_secret_key, load_secret_key and clear_secret_key over the OS      *)
(* keychain reached through keyring::Entry.                                *)
(*                                                                         *)
(* The keychain is the only state.  Every call of a command resolves the   *)
(* fixed (SERVICE_NAME, USERNAME) entry and performs one keyring           *)
(* operation; what Entry::new and the keyring operation answer (success,   *)
(* NoEntry, another keyring::Error) is chosen by the environment.  Callers *)
(* invoke commands concurrently; a command takes effect atomically at its  *)
(* keyring operation.  history is the record of the completed calls in the *)
(* order in which they took effect.                                        *)
(***************************************************************************)
EXTENDS Naturals, Sequences, FiniteSets

VARIABLES keychain, pending, history

vars == <<keychain, pending, history>>

\* Number of command invocations in one behaviour.
MaxCalls == 3

SERVICE_NAME == "photovault"
USERNAME == "secret_key"

\* Secret values passed to store_secret_key.
Keys == {"abc123", "test_key"}

\* The threads of the command layer that invoke the commands.
Callers == {"c1", "c2"}

\* keyring::Error values other than NoEntry.
AccessErrors == {"PlatformFailure", "NoStorageAccess"}

\* What Entry::new can answer.
NewOutcomes == {"Ok", "PlatformFailure"}

\* What the backend can answer to set_password besides storing the password.
SetFaults == {"Ok", "NoEntry"} \cup AccessErrors

\* What the backend can answer to get_password / delete_password besides
\* serving the request (NoEntry then follows from the keychain's content).
AccessFaults == {"Ok"} \cup AccessErrors

----------------------------------------------------------------------------
\* Result<T, String> values returned to the caller.

Ok(v) == [tag |-> "Ok", val |-> v]

Err(prefix, e) == [tag |-> "Err", val |-> <<prefix, e>>]

Unit == <<>>

None == <<"None">>

Some(v) == <<"Some", v>>

----------------------------------------------------------------------------
\* keyring::Entry over the OS keychain, a set of credentials.

Credential(entry, password) ==
    [service |-> entry.service, account |-> entry.account, password |-> password]

Matching(kc, entry) ==
    {r \in kc : r.service = entry.service /\ r.account = entry.account}

Entry_new(service, account, newOut) ==
    IF newOut = "Ok"
    THEN [ok |-> TRUE, entry |-> [service |-> service, account |-> account]]
    ELSE [ok |-> FALSE, err |-> newOut]

set_password(kc, entry, password, fault) ==
    IF fault = "Ok"
    THEN [res |-> "Ok",
          keychain |-> (kc \ Matching(kc, entry)) \cup {Credential(entry, password)}]
    ELSE [res |-> fault, keychain |-> kc]

get_password(kc, entry, fault) ==
    IF fault # "Ok" THEN [res |-> fault, password |-> ""]
    ELSE IF Matching(kc, entry) = {} THEN [res |-> "NoEntry", password |-> ""]
    ELSE [res |-> "Ok", password |-> (CHOOSE r \in Matching(kc, entry) : TRUE).password]

delete_password(kc, entry, fault) ==
    IF fault # "Ok" THEN [res |-> fault, keychain |-> kc]
    ELSE IF Matching(kc, entry) = {} THEN [res |-> "NoEntry", keychain |-> kc]
    ELSE [res |-> "Ok", keychain |-> kc \ Matching(kc, entry)]

----------------------------------------------------------------------------
\* The commands.  Each yields the result returned to the caller, the
\* keychain it leaves, the keyring operations it performed (ops) and the
\* answer of the keyring operation (out, "NotCalled" when none was made).

Outcome(result, kc, ops, out) ==
    [result |-> result, keychain |-> kc, ops |-> ops, out |-> out]

\* store_secret_key writing under another account than the one that
\* load_secret_key and clear_secret_key read.
store_other_account(kc, key, newOut, fault) ==
    LET e == Entry_new(SERVICE_NAME, "secret-key", newOut) IN
    IF ~e.ok
    THEN Outcome(Err("Failed to create keychain entry: ", e.err), kc, <<>>, "NotCalled")
    ELSE LET r == set_password(kc, e.entry, key, fault) IN
         IF r.res # "Ok"
         THEN Outcome(Err("Failed to store key: ", r.res), r.keychain, <<"set">>, r.res)
         ELSE Outcome(Ok(Unit), r.keychain, <<"set">>, r.res)

\* store_secret_key that creates the record but never overwrites one.
store_insert_only(kc, key, newOut, fault) ==
    LET e == Entry_new(SERVICE_NAME, USERNAME, newOut) IN
    IF ~e.ok
    THEN Outcome(Err("Failed to create keychain entry: ", e.err), kc, <<>>, "NotCalled")
    ELSE LET r == IF Matching(kc, e.entry) # {} /\ fault = "Ok"
                  THEN [res |-> "Ok", keychain |-> kc]
                  ELSE set_password(kc, e.entry, key, fault) IN
         IF r.res # "Ok"
         THEN Outcome(Err("Failed to store key: ", r.res), r.keychain, <<"set">>, r.res)
         ELSE Outcome(Ok(Unit), r.keychain, <<"set">>, r.res)

\* store_secret_key that calls set_password a second time when the first
\* call fails.
store_with_retry(kc, key, newOut, fault) ==
    LET e == Entry_new(SERVICE_NAME, USERNAME, newOut) IN
    IF ~e.ok
    THEN Outcome(Err("Failed to create keychain entry: ", e.err), kc, <<>>, "NotCalled")
    ELSE LET r == set_password(kc, e.entry, key, fault) IN
         IF r.res # "Ok"
         THEN LET r2 == set_password(r.keychain, e.entry, key, "Ok") IN
              Outcome(Ok(Unit), r2.keychain, <<"set", "set">>, r2.res)
         ELSE Outcome(Ok(Unit), r.keychain, <<"set">>, r.res)

\* store_secret_key that drops the error of set_password (no `?`).
store_ignoring_error(kc, key, newOut, fault) ==
    LET e == Entry_new(SERVICE_NAME, USERNAME, newOut) IN
    IF ~e.ok
    THEN Outcome(Err("Failed to create keychain entry: ", e.err), kc, <<>>, "NotCalled")
    ELSE LET r == set_password(kc, e.entry, key, fault) IN
         Outcome(Ok(Unit), r.keychain, <<"set">>, r.res)

store_secret_key(kc, key, newOut, fault) ==
    LET e == Entry_new(SERVICE_NAME, USERNAME, newOut) IN
    IF ~e.ok
    THEN Outcome(Err("Failed to create keychain entry: ", e.err), kc, <<>>, "NotCalled")
    ELSE LET r == set_password(kc, e.entry, key, fault) IN
         IF r.res # "Ok"
         THEN Outcome(Err("Failed to store key: ", r.res), r.keychain, <<"set">>, r.res)
         ELSE Outcome(Ok(Unit), r.keychain, <<"set">>, r.res)

\* load_secret_key without the NoEntry arm: absence is reported as an error.
load_absent_is_error(kc, newOut, fault) ==
    LET e == Entry_new(SERVICE_NAME, USERNAME, newOut) IN
    IF ~e.ok
    THEN Outcome(Err("Failed to create keychain entry: ", e.err), kc, <<>>, "NotCalled")
    ELSE LET r == get_password(kc, e.entry, fault) IN
         CASE r.res = "Ok" -> Outcome(Ok(Some(r.password)), kc, <<"get">>, r.res)
           [] OTHER -> Outcome(Err("Failed to load key: ", r.res), kc, <<"get">>, r.res)

\* load_secret_key whose NoEntry arm is a catch-all: every error reads as
\* "no key stored".
load_swallowing_errors(kc, newOut, fault) ==
    LET e == Entry_new(SERVICE_NAME, USERNAME, newOut) IN
    IF ~e.ok
    THEN Outcome(Err("Failed to create keychain entry: ", e.err), kc, <<>>, "NotCalled")
    ELSE LET r == get_password(kc, e.entry, fault) IN
         CASE r.res = "Ok" -> Outcome(Ok(Some(r.password)), kc, <<"get">>, r.res)
           [] OTHER -> Outcome(Ok(None), kc, <<"get">>, r.res)

\* load_secret_key that removes the record it has read (a take).
load_and_take(kc, newOut, fault) ==
    LET e == Entry_new(SERVICE_NAME, USERNAME, newOut) IN
    IF ~e.ok
    THEN Outcome(Err("Failed to create keychain entry: ", e.err), kc, <<>>, "NotCalled")
    ELSE LET r == get_password(kc, e.entry, fault) IN
         CASE r.res = "Ok" -> Outcome(Ok(Some(r.password)),
                                      delete_password(kc, e.entry, "Ok").keychain,
                                      <<"get">>, r.res)
           [] r.res = "NoEntry" -> Outcome(Ok(None), kc, <<"get">>, r.res)
           [] OTHER -> Outcome(Err("Failed to load key: ", r.res), kc, <<"get">>, r.res)

load_secret_key(kc, newOut, fault) ==
    LET e == Entry_new(SERVICE_NAME, USERNAME, newOut) IN
    IF ~e.ok
    THEN Outcome(Err("Failed to create keychain entry: ", e.err), kc, <<>>, "NotCalled")
    ELSE LET r == get_password(kc, e.entry, fault) IN
         CASE r.res = "Ok" -> Outcome(Ok(Some(r.password)), kc, <<"get">>, r.res)
           [] r.res = "NoEntry" -> Outcome(Ok(None), kc, <<"get">>, r.res)
           [] OTHER -> Outcome(Err("Failed to load key: ", r.res), kc, <<"get">>, r.res)

\* clear_secret_key without the NoEntry arm: a missing record is an error.
clear_absent_is_error(kc, newOut, fault) ==
    LET e == Entry_new(SERVICE_NAME, USERNAME, newOut) IN
    IF ~e.ok
    THEN Outcome(Err("Failed to create keychain entry: ", e.err), kc, <<>>, "NotCalled")
    ELSE LET r == delete_password(kc, e.entry, fault) IN
         CASE r.res = "Ok" -> Outcome(Ok(Unit), r.keychain, <<"delete">>, r.res)
           [] OTHER -> Outcome(Err("Failed to clear key: ", r.res), r.keychain,
                               <<"delete">>, r.res)

\* clear_secret_key that reports success without deleting the record.
clear_without_delete(kc, newOut, fault) ==
    LET e == Entry_new(SERVICE_NAME, USERNAME, newOut) IN
    IF ~e.ok
    THEN Outcome(Err("Failed to create keychain entry: ", e.err), kc, <<>>, "NotCalled")
    ELSE LET r == get_password(kc, e.entry, fault) IN
         CASE r.res = "Ok" -> Outcome(Ok(Unit), kc, <<"delete">>, r.res)
           [] r.res = "NoEntry" -> Outcome(Ok(Unit), kc, <<"delete">>, r.res)
           [] OTHER -> Outcome(Err("Failed to clear key: ", r.res), kc,
                               <<"delete">>, r.res)

\* clear_secret_key that takes a failure of Entry::new for "nothing to
\* clear" and reports success.
clear_lenient_entry(kc, newOut, fault) ==
    LET e == Entry_new(SERVICE_NAME, USERNAME, newOut) IN
    IF ~e.ok
    THEN Outcome(Ok(Unit), kc, <<>>, "NotCalled")
    ELSE LET r == delete_password(kc, e.entry, fault) IN
         CASE r.res = "Ok" -> Outcome(Ok(Unit), r.keychain, <<"delete">>, r.res)
           [] r.res = "NoEntry" -> Outcome(Ok(Unit), r.keychain, <<"delete">>, r.res)
           [] OTHER -> Outcome(Err("Failed to clear key: ", r.res), r.keychain,
                               <<"delete">>, r.res)

clear_secret_key(kc, newOut, fault) ==
    LET e == Entry_new(SERVICE_NAME, USERNAME, newOut) IN
    IF ~e.ok
    THEN Outcome(Err("Failed to create keychain entry: ", e.err), kc, <<>>, "NotCalled")
    ELSE LET r == delete_password(kc, e.entry, fault) IN
         CASE r.res = "Ok" -> Outcome(Ok(Unit), r.keychain, <<"delete">>, r.res)
           [] r.res = "NoEntry" -> Outcome(Ok(Unit), r.keychain, <<"delete">>, r.res)
           [] OTHER -> Outcome(Err("Failed to clear key: ", r.res), r.keychain,
                               <<"delete">>, r.res)

----------------------------------------------------------------------------
\* The state machine.

Idle == [op |-> "idle", key |-> ""]

Requests ==
    {[op |-> "store", key |-> k] : k \in Keys}
        \cup {[op |-> "load", key |-> ""], [op |-> "clear", key |-> ""]}

Invoked == Len(history) + Cardinality({c \in Callers : pending[c] # Idle})

Completed(c, req, newOut, o, before) ==
    [caller |-> c, op |-> req.op, key |-> req.key, newOut |-> newOut, out |-> o.out,
     result |-> o.result, ops |-> o.ops, before |-> before, after |-> o.keychain]

Init ==
    /\ keychain = {}
    /\ pending = [c \in Callers |-> Idle]
    /\ history = <<>>

\* The command layer dispatches a command for caller c.
Invoke(c) ==
    /\ pending[c] = Idle
    /\ Invoked < MaxCalls
    /\ \E req \in Requests : pending' = [pending EXCEPT ![c] = req]
    /\ UNCHANGED <<keychain, history>>

Return(c, newOut, o) ==
    /\ keychain' = o.keychain
    /\ history' = Append(history, Completed(c, pending[c], newOut, o, keychain))
    /\ pending' = [pending EXCEPT ![c] = Idle]

Store(c) ==
    /\ pending[c].op = "store"
    /\ \E newOut \in NewOutcomes, fault \in SetFaults :
          /\ newOut # "Ok" => fault = "Ok"
          /\ Return(c, newOut, store_secret_key(keychain, pending[c].key, newOut, fault))

Load(c) ==
    /\ pending[c].op = "load"
    /\ \E newOut \in NewOutcomes, fault \in AccessFaults :
          /\ newOut # "Ok" => fault = "Ok"
          /\ Return(c, newOut, load_secret_key(keychain, newOut, fault))

Clear(c) ==
    /\ pending[c].op = "clear"
    /\ \E newOut \in NewOutcomes, fault \in AccessFaults :
          /\ newOut # "Ok" => fault = "Ok"
          /\ Return(c, newOut, clear_secret_key(keychain, newOut, fault))

Next == \E c \in Callers : Invoke(c) \/ Store(c) \/ Load(c) \/ Clear(c)

Spec == Init /\ [][Next]_vars

----------------------------------------------------------------------------
\* Vocabulary of the properties.

Identity == [service |-> SERVICE_NAME, account |-> USERNAME]

Calls == 1..Len(history)

IsCall(i, op) == i \in Calls /\ history[i].op = op

IsOk(h) == h.result.tag = "Ok"

IsErr(h) == h.result.tag = "Err"

Absent(kc) == Matching(kc, Identity) = {}

\* The call met an access error: Entry::new failed, or the keyring
\* operation answered an error other than NoEntry.
AccessFailed(h) == h.newOut # "Ok" \/ h.out \in AccessErrors

\* The call returned Err, and it did so for an access error.
FailedOnAccess(h) == IsErr(h) /\ AccessFailed(h)

Prefix(op) ==
    CASE op = "store" -> "Failed to store key: "
      [] op = "load" -> "Failed to load key: "
      [] op = "clear" -> "Failed to clear key: "

----------------------------------------------------------------------------
\* C1 as stated: a load that follows a successful store(s) returns
\* Ok(Some(s)).
C1_RoundTripAlways ==
    \A i \in Calls :
        (IsCall(i, "store") /\ IsOk(history[i]) /\ IsCall(i + 1, "load"))
            => history[i + 1].result = Ok(Some(history[i].key))

\* C1 (round trip), amended: when store_secret_key(s) returns Ok, the load
\* that follows it returns Ok(Some(s)), unless that load meets an access
\* error, in which case it returns Err.
C1_RoundTrip ==
    \A i \in Calls :
        (IsCall(i, "store") /\ IsOk(history[i]) /\ IsCall(i + 1, "load"))
            => \/ history[i + 1].result = Ok(Some(history[i].key))
               \/ FailedOnAccess(history[i + 1])

C1_Witness ==
    \E i \in Calls :
        /\ IsCall(i, "store") /\ IsOk(history[i]) /\ IsCall(i + 1, "load")
        /\ history[i + 1].result = Ok(Some(history[i].key))

\* C2 (absence is not failure): a load whose get_password reports NoEntry
\* returns Ok(None), and get_password reports NoEntry whenever no record
\* exists under the fixed identity and the access itself does not fail.
C2_AbsenceIsNotFailure ==
    \A i \in Calls :
        IsCall(i, "load") =>
            /\ history[i].out = "NoEntry" => history[i].result = Ok(None)
            /\ (Absent(history[i].before) /\ ~AccessFailed(history[i]))
                   => history[i].out = "NoEntry" /\ history[i].result = Ok(None)

C2_Witness ==
    \E i \in Calls :
        /\ IsCall(i, "load") /\ Absent(history[i].before)
        /\ history[i].out = "NoEntry" /\ history[i].result = Ok(None)

\* C3 as stated: clear on an absent record returns Ok(()) and changes
\* nothing, and the second of two clears in a row returns no error.
C3_ClearNeverFails ==
    \A i \in Calls :
        /\ (IsCall(i, "clear") /\ Absent(history[i].before))
               => history[i].result = Ok(Unit) /\ history[i].after = history[i].before
        /\ (IsCall(i, "clear") /\ IsCall(i + 1, "clear")) => IsOk(history[i + 1])

\* C3 (idempotent clear), amended: clear on an absent record leaves the
\* keychain unchanged and returns Ok(()) unless it meets an access error;
\* the second of two clears in a row returns an error only for an access
\* error, never for the record being absent.
C3_IdempotentClear ==
    \A i \in Calls :
        /\ (IsCall(i, "clear") /\ Absent(history[i].before))
               => /\ history[i].after = history[i].before
                  /\ history[i].result = Ok(Unit) \/ FailedOnAccess(history[i])
        /\ (IsCall(i, "clear") /\ IsCall(i + 1, "clear"))
               => history[i + 1].result = Ok(Unit) \/ FailedOnAccess(history[i + 1])

C3_Witness ==
    \E i \in Calls :
        /\ IsCall(i, "clear") /\ IsOk(history[i])
        /\ IsCall(i + 1, "clear") /\ Absent(history[i + 1].before)
        /\ history[i + 1].out = "NoEntry" /\ history[i + 1].result = Ok(Unit)

\* C4 as stated: after store(s) and a clear that returns Ok, the next load
\* returns Ok(None).
C4_LoadAfterClearIsNone ==
    \A i \in Calls :
        (/\ IsCall(i, "store")
         /\ IsCall(i + 1, "clear") /\ IsOk(history[i + 1])
         /\ IsCall(i + 2, "load"))
            => history[i + 2].result = Ok(None)

\* C4 (post-clear absence), amended: after store(s) and a clear that returns
\* Ok no record is left, and the next load returns Ok(None) unless it meets
\* an access error, in which case it returns Err; it never returns a value.
C4_PostClearAbsence ==
    \A i \in Calls :
        (/\ IsCall(i, "store")
         /\ IsCall(i + 1, "clear") /\ IsOk(history[i + 1]))
            => /\ Absent(history[i + 1].after)
               /\ IsCall(i + 2, "load")
                      => \/ history[i + 2].result = Ok(None)
                         \/ FailedOnAccess(history[i + 2])

C4_Witness ==
    \E i \in Calls :
        /\ IsCall(i, "store") /\ IsOk(history[i])
        /\ IsCall(i + 1, "clear") /\ IsOk(history[i + 1])
        /\ IsCall(i + 2, "load") /\ history[i + 2].result = Ok(None)

\* C5 as stated: after store(s1) and store(s2), both successful, load
\* returns Ok(Some(s2)), and at most one record exists.
C5_LastWriteAlwaysLoaded ==
    /\ Cardinality(Matching(keychain, Identity)) <= 1
    /\ \A i \in Calls :
           (/\ IsCall(i, "store") /\ IsOk(history[i])
            /\ IsCall(i + 1, "store") /\ IsOk(history[i + 1])
            /\ IsCall(i + 2, "load"))
               => history[i + 2].result = Ok(Some(history[i + 1].key))

\* C5 (overwrite), amended: after store(s1) and a store(s2) that returns
\* Ok, load returns Ok(Some(s2)) unless it meets an access error; a store
\* whose set_password succeeds returns Ok and leaves exactly the new record,
\* whether or not a record existed; at most one record exists under the
\* fixed identity in every state.
C5_Overwrite ==
    /\ Cardinality(Matching(keychain, Identity)) <= 1
    /\ \A i \in Calls :
           /\ (IsCall(i, "store") /\ history[i].out = "Ok")
                  => /\ history[i].result = Ok(Unit)
                     /\ Matching(history[i].after, Identity)
                            = {Credential(Identity, history[i].key)}
           /\ (IsCall(i, "store") /\ IsErr(history[i]))
                  => history[i].newOut # "Ok" \/ history[i].out # "Ok"
           /\ (/\ IsCall(i, "store")
               /\ IsCall(i + 1, "store") /\ IsOk(history[i + 1])
               /\ IsCall(i + 2, "load"))
                  => \/ history[i + 2].result = Ok(Some(history[i + 1].key))
                     \/ FailedOnAccess(history[i + 2])

C5_Witness ==
    \E i \in Calls :
        /\ IsCall(i, "store") /\ IsOk(history[i])
        /\ IsCall(i + 1, "store") /\ IsOk(history[i + 1])
        /\ history[i + 1].key # history[i].key
        /\ IsCall(i + 2, "load")
        /\ history[i + 2].result = Ok(Some(history[i + 1].key))

\* C6 as stated: in all three commands a NoEntry answer of the backend
\* gives the command's success value and every other error gives Err.
C6_NotFoundIsSuccessEverywhere ==
    \A i \in Calls :
        /\ history[i].out = "NoEntry" => IsOk(history[i])
        /\ AccessFailed(history[i]) => IsErr(history[i])

\* C6 (error normalization), amended: load and clear map NoEntry to their
\* success value (Ok(None), Ok(())); store has no such case and maps every
\* error of set_password, NoEntry included, to Err; in all three commands
\* every other backend error and a failure of Entry::new map to Err with a
\* diagnostic string made of a fixed prefix and the backend's error, and a
\* backend success maps to Ok; nothing else is returned.
C6_ErrorNormalization ==
    \A i \in Calls :
        LET h == history[i] IN
        /\ (h.op \in {"load", "clear"} /\ h.out = "NoEntry")
               => h.result = (IF h.op = "load" THEN Ok(None) ELSE Ok(Unit))
        /\ (h.op = "store" /\ h.out = "NoEntry")
               => h.result = Err(Prefix("store"), "NoEntry")
        /\ h.out \in AccessErrors => h.result = Err(Prefix(h.op), h.out)
        /\ h.newOut # "Ok"
               => h.result = Err("Failed to create keychain entry: ", h.newOut)
        /\ (h.newOut = "Ok" /\ h.out = "Ok") => IsOk(h)
        /\ IsOk(h) =>
               h.result.val \in
                   (IF h.op = "load" THEN {None} \cup {Some(k) : k \in Keys} ELSE {Unit})
        /\ h.result.tag \in {"Ok", "Err"}

C6_Witness ==
    /\ \E i \in Calls :
           /\ history[i].op = "store" /\ history[i].out = "NoEntry"
           /\ IsErr(history[i])
    /\ \E i \in Calls :
           /\ history[i].op \in {"load", "clear"} /\ history[i].out = "NoEntry"
           /\ IsOk(history[i])
    /\ \E i \in Calls : history[i].out \in AccessErrors /\ IsErr(history[i])

\* C7 as stated: load leaves the record as it was, and consecutive loads
\* return the same result.
C7_LoadsAlwaysAgree ==
    \A i \in Calls :
        /\ IsCall(i, "load") => history[i].after = history[i].before
        /\ (IsCall(i, "load") /\ IsCall(i + 1, "load"))
               => history[i + 1].result = history[i].result

\* C7 (load has no side effects), amended: in every outcome of load the
\* keychain is the same after the call as before, so consecutive loads
\* return the same result except where one of them meets an access error.
C7_LoadNoSideEffects ==
    \A i \in Calls :
        /\ IsCall(i, "load") => history[i].after = history[i].before
        /\ (IsCall(i, "load") /\ IsCall(i + 1, "load"))
               => \/ history[i + 1].result = history[i].result
                  \/ FailedOnAccess(history[i])
                  \/ FailedOnAccess(history[i + 1])

C7_Witness ==
    \E i \in Calls, k \in Keys :
        /\ IsCall(i, "load") /\ history[i].result = Ok(Some(k))
        /\ history[i].after = history[i].before
        /\ IsCall(i + 1, "load") /\ history[i + 1].result = Ok(Some(k))

\* C8 (single round trip): every call performs at most one keyring
\* operation, the one of its command (set, get or delete), none when
\* Entry::new fails, and then returns Ok or Err: a backend error is returned
\* after that one operation, without a retry; a dispatched call can always
\* run.
C8_SingleRoundTrip ==
    /\ \A i \in Calls :
           LET h == history[i] IN
           /\ Len(h.ops) <= 1
           /\ h.ops = (IF h.newOut # "Ok" THEN <<>>
                       ELSE CASE h.op = "store" -> <<"set">>
                              [] h.op = "load" -> <<"get">>
                              [] h.op = "clear" -> <<"delete">>)
           /\ h.result.tag \in {"Ok", "Err"}
           /\ (h.out # "NotCalled" /\ h.out # "Ok" /\ h.op = "store") => IsErr(h)
           /\ h.out \in AccessErrors => IsErr(h)
    /\ \A c \in Callers :
           pending[c] # Idle => ENABLED (Store(c) \/ Load(c) \/ Clear(c))

C8_Witness ==
    /\ \E i \in Calls :
           /\ history[i].op = "store" /\ history[i].ops = <<"set">>
           /\ history[i].out \in AccessErrors /\ IsErr(history[i])
    /\ \E i \in Calls : history[i].ops = <<"get">> /\ IsOk(history[i])
    /\ \E i \in Calls : history[i].ops = <<"delete">>

\* C9 (entry creation failure): when Entry::new fails, store, load and clear
\* return Err("Failed to create keychain entry: ...") without any keyring
\* set/get/delete and leave the keychain unchanged; clear does so even when
\* no record exists.
C9_EntryFailure ==
    \A i \in Calls :
        history[i].newOut # "Ok"
            => /\ history[i].result
                      = Err("Failed to create keychain entry: ", history[i].newOut)
               /\ history[i].ops = <<>>
               /\ history[i].out = "NotCalled"
               /\ history[i].after = history[i].before

C9_Witness ==
    /\ \E i \in Calls :
           /\ history[i].op = "clear" /\ history[i].newOut # "Ok"
           /\ Absent(history[i].before) /\ IsErr(history[i])
    /\ \E i \in Calls :
           /\ history[i].op = "store" /\ history[i].newOut # "Ok"
           /\ IsErr(history[i])
    /\ \E i \in Calls :
           /\ history[i].op = "load" /\ history[i].newOut # "Ok"
           /\ IsErr(history[i])

\* A store or a clear that took effect: it returned Ok.
Effective(i) == history[i].op \in {"store", "clear"} /\ IsOk(history[i])

\* The last store or clear that took effect before call i (0 when none).
LastEffective(i) ==
    LET S == {j \in 1..(i - 1) : Effective(j)} IN
    IF S = {} THEN 0 ELSE CHOOSE j \in S : \A k \in S : k <= j

\* C10 (concurrent callers): with the commands of several callers
\* interleaved, a load that returns Ok(Some(v)) returns the argument of the
\* most recent store that took effect, no clear having taken effect after
\* it; a load that returns Ok(None) happens when no store has taken effect
\* since the last effective clear, or ever; no load returns a value that
\* was never stored.
C10_Linearizable ==
    \A i \in Calls :
        IsCall(i, "load") =>
            LET j == LastEffective(i) IN
            /\ \A v \in Keys :
                   history[i].result = Ok(Some(v))
                       => j # 0 /\ history[j].op = "store" /\ history[j].key = v
            /\ history[i].result = Ok(None) => (j = 0 \/ history[j].op = "clear")
            /\ IsOk(history[i]) =>
                   history[i].result.val \in {None} \cup {Some(k) : k \in Keys}

C10_Witness ==
    \E i \in Calls :
        /\ IsCall(i, "store") /\ IsOk(history[i])
        /\ IsCall(i + 1, "store") /\ IsOk(history[i + 1])
        /\ history[i + 1].caller # history[i].caller
        /\ history[i + 1].key # history[i].key
        /\ IsCall(i + 2, "load")
        /\ history[i + 2].caller = history[i].caller
        /\ history[i + 2].result = Ok(Some(history[i + 1].key))

====
